---------------------------- MODULE Spec2Model ----------------------------
(***************************************************************************)
(* Model of the quiz-text parser of Tele-quiz-bot (src/parser.py) and of    *)
(* its per-user rate limiter (src/rate_limit.py).                          *)
(*                                                                         *)
(* A text is a sequence of characters.  A character is a one-element       *)
(* string for the printable ASCII characters ("a", "1", ":" ...) and a     *)
(* name for the others: "LF" (U+000A), "CR" (U+000D), "TAB" (U+0009),      *)
(* "NBSP" (U+00A0), "ZWSP" (U+200B), "ACUTE" (U+0301, a combining mark),   *)
(* "E_ACUTE" (U+00E9), "FW1" (U+FF11, fullwidth digit one), "AD0".."AD9"   *)
(* (the Arabic-Indic digits U+0660..U+0669), "CHECK"/"HCHECK"/"WCHECK"     *)
(* (U+2713, U+2714, U+2705), "BULLET" (U+2022) and the Arabic letters      *)
(* "AR_..." listed in ArabicCode.                                          *)
(*                                                                         *)
(* Every regular expression of the source is an operator that matches      *)
(* character by character, the way the expression does.                    *)
(***************************************************************************)
EXTENDS Integers, Sequences, FiniteSets

VARIABLES
    message,    \* parse_message's argument (normalize_text's, in SpecNorm)
    text,       \* the normalized text
    blocks,     \* extract_blocks(text)
    bi,         \* number of blocks the loop of parse_message has consumed
    questions,  \* the list of returned questions
    failed,     \* the list of failed blocks
    cur,        \* the locals of the last loop iteration
    pc,         \* position: "start", "loop", "done" (SpecNorm: "normalized", "renormalized")
    clock,              \* the last reading of time.time(), in seconds
    user_last_request,  \* the dictionary of src/rate_limit.py
    allowed_at,         \* history: per user, the time of its last allowed call
    call                \* the last call of check_rate_limit and its result

parserVars == <<message, text, blocks, bi, questions, failed, cur, pc>>

rateVars == <<clock, user_last_request, allowed_at, call>>

vars == <<message, text, blocks, bi, questions, failed, cur, pc,
          clock, user_last_request, allowed_at, call>>

(***************************************************************************)
(* Characters and character classes                                        *)
(***************************************************************************)

\* Optional[int]: None is the empty sequence, the integer n is <<n>>.
None == <<>>

Some(n) == <<n>>

LowerLatin == <<"a","b","c","d","e","f","g","h","i","j","k","l","m",
                "n","o","p","q","r","s","t","u","v","w","x","y","z">>

UpperLatin == <<"A","B","C","D","E","F","G","H","I","J","K","L","M",
                "N","O","P","Q","R","S","T","U","V","W","X","Y","Z">>

LowerSet == {LowerLatin[i] : i \in 1..26}

UpperSet == {UpperLatin[i] : i \in 1..26}

AsciiDigits == <<"0","1","2","3","4","5","6","7","8","9">>

\* ARABIC_INDIC_DIGITS: the digit of value d is at index d of the string.
ARABIC_INDIC_DIGITS == <<"AD0","AD1","AD2","AD3","AD4","AD5","AD6","AD7","AD8","AD9">>

AsciiDigitSet == {AsciiDigits[i] : i \in 1..10}

ArabicDigitSet == {ARABIC_INDIC_DIGITS[i] : i \in 1..10}

\* \d of a str pattern: every Unicode decimal digit.
DigitSet == AsciiDigitSet \cup ArabicDigitSet \cup {"FW1"}

\* The code points of the Arabic letters of the model.
ArabicCode ==
    [AR_ALEF_HAMZA |-> 1571, AR_ALEF_HAMZA_BELOW |-> 1573, AR_ALEF |-> 1575,
     AR_BEH |-> 1576, AR_TEH_MARBUTA |-> 1577, AR_TEH |-> 1578,
     AR_JEEM |-> 1580, AR_HAH |-> 1581, AR_KHAH |-> 1582, AR_DAL |-> 1583,
     AR_SAD |-> 1589, AR_TAH |-> 1591, AR_LAM |-> 1604, AR_HEH |-> 1607,
     AR_WAW |-> 1608, AR_YEH |-> 1610]

ArabicSet == DOMAIN ArabicCode

\* [lo-hi] over the Arabic letters of the model.
ArabicRange(lo, hi) == {c \in ArabicSet : ArabicCode[c] >= lo /\ ArabicCode[c] <= hi}

\* str.strip() and \s: the whitespace characters.
WS == {" ", "LF", "CR", "TAB", "NBSP"}

\* \w: letters, digits and the underscore; a combining mark is not one.
WordSet == LowerSet \cup UpperSet \cup DigitSet \cup ArabicSet \cup {"_", "E_ACUTE"}

\* str.lower() of one character, and the folding of re.I.
Lower(c) ==
    IF c \in UpperSet
    THEN LowerLatin[CHOOSE i \in 1..26 : UpperLatin[i] = c]
    ELSE c

\* ord(c) - ord("a") for a lower-case Latin letter.
LatinIndex(c) == (CHOOSE i \in 1..26 : LowerLatin[i] = c) - 1

\* int(c) of a decimal digit.
DigitVal(c) ==
    IF c \in AsciiDigitSet THEN (CHOOSE i \in 1..10 : AsciiDigits[i] = c) - 1
    ELSE IF c \in ArabicDigitSet THEN (CHOOSE i \in 1..10 : ARABIC_INDIC_DIGITS[i] = c) - 1
    ELSE 1

(***************************************************************************)
(* Generic helpers on texts                                                *)
(***************************************************************************)

\* s[from:] as a 1-based suffix.
From(s, p) == SubSeq(s, p, Len(s))

\* The first position q >= p with s[q] outside S, Len(s)+1 if there is none.
RECURSIVE SkipWhile(_, _, _)
SkipWhile(s, p, S) ==
    IF p > Len(s) \/ s[p] \notin S THEN p ELSE SkipWhile(s, p + 1, S)

\* The last position q <= p with s[q] outside S, 0 if there is none.
RECURSIVE SkipBack(_, _, _)
SkipBack(s, p, S) ==
    IF p < 1 \/ s[p] \notin S THEN p ELSE SkipBack(s, p - 1, S)

\* str.strip()
Strip(s) ==
    LET a == SkipWhile(s, 1, WS)
        b == SkipBack(s, Len(s), WS)
    IN  IF a > b THEN <<>> ELSE SubSeq(s, a, b)

\* sep.join(parts)
RECURSIVE Join(_, _)
Join(parts, sep) ==
    IF parts = <<>> THEN <<>>
    ELSE IF Len(parts) = 1 THEN parts[1]
    ELSE parts[1] \o sep \o Join(Tail(parts), sep)

\* The literal w is at position p of s, compared as re.I compares.
MatchesAt(s, p, w) ==
    /\ p >= 1
    /\ p + Len(w) - 1 <= Len(s)
    /\ \A k \in 1..Len(w) : Lower(s[p + k - 1]) = Lower(w[k])

\* \bw\b matches at position p of s (w begins and ends with a word character).
WordAt(s, p, w) ==
    /\ MatchesAt(s, p, w)
    /\ (p = 1 \/ s[p - 1] \notin WordSet)
    /\ (p + Len(w) > Len(s) \/ s[p + Len(w)] \notin WordSet)

\* re.search(r'\bw\b', s, re.I) finds a match.
HasWord(s, w) == \E p \in 1..Len(s) : WordAt(s, p, w)

(***************************************************************************)
(* Normalization                                                           *)
(***************************************************************************)

\* unicodedata.normalize("NFKC", text) on the characters of the model: the
\* compatibility characters decompose (NBSP to a space, the fullwidth digit to
\* the ASCII digit) and a base letter followed by a combining mark composes.
RECURSIVE NFKC(_)
NFKC(s) ==
    IF s = <<>> THEN <<>>
    ELSE IF s[1] = "NBSP" THEN <<" ">> \o NFKC(Tail(s))
    ELSE IF s[1] = "FW1" THEN <<"1">> \o NFKC(Tail(s))
    ELSE IF Len(s) >= 2 /\ s[1] = "e" /\ s[2] = "ACUTE"
         THEN <<"E_ACUTE">> \o NFKC(SubSeq(s, 3, Len(s)))
    ELSE <<s[1]>> \o NFKC(Tail(s))

\* text.replace("\r\n", "\n").replace("\r", "\n")
RECURSIVE ReplaceLineEnds(_)
ReplaceLineEnds(s) ==
    IF s = <<>> THEN <<>>
    ELSE IF Len(s) >= 2 /\ s[1] = "CR" /\ s[2] = "LF"
         THEN <<"LF">> \o ReplaceLineEnds(SubSeq(s, 3, Len(s)))
    ELSE IF s[1] = "CR" THEN <<"LF">> \o ReplaceLineEnds(Tail(s))
    ELSE <<s[1]>> \o ReplaceLineEnds(Tail(s))

\* text.replace("\u00A0", " ").replace("\u200B", "")
RECURSIVE ReplaceSpaces(_)
ReplaceSpaces(s) ==
    IF s = <<>> THEN <<>>
    ELSE IF s[1] = "NBSP" THEN <<" ">> \o ReplaceSpaces(Tail(s))
    ELSE IF s[1] = "ZWSP" THEN ReplaceSpaces(Tail(s))
    ELSE <<s[1]>> \o ReplaceSpaces(Tail(s))

\* map_digit: str(ARABIC_INDIC_DIGITS.index(c))
map_digit(c) == AsciiDigits[CHOOSE i \in 1..10 : ARABIC_INDIC_DIGITS[i] = c]

\* re.sub(r"[AD0-AD9]", map_digit, text)
MapDigits(s) ==
    [i \in 1..Len(s) |-> IF s[i] \in ArabicDigitSet THEN map_digit(s[i]) ELSE s[i]]

normalize_text(s) == Strip(MapDigits(ReplaceSpaces(ReplaceLineEnds(NFKC(s)))))

(***************************************************************************)
(* Patterns                                                                *)
(***************************************************************************)

Min(S) == CHOOSE x \in S : \A y \in S : x <= y

Max(S) == CHOOSE x \in S : \A y \in S : x >= y

\* The first position q >= p with s[q] in S, Len(s)+1 if there is none.
RECURSIVE FindFirst(_, _, _)
FindFirst(s, p, S) ==
    IF p > Len(s) \/ s[p] \in S THEN p ELSE FindFirst(s, p + 1, S)

\* [\.\)\-:]
Punct == {".", ")", "-", ":"}

\* [A-Ha-h]|[AR_ALEF_HAMZA-AR_HEH], the option letters of OPTION_LINE_RE and
\* INLINE_OPTION_SPLIT_RE.
OptLetters ==
    {"a","b","c","d","e","f","g","h","A","B","C","D","E","F","G","H"}
        \cup ArabicRange(1571, 1607)

\* QUESTION_START_RE = (?m)^\s*(\d+)\s*[\.\)\-:]\s*  tried at position p:
\* the position after the match, 0 when there is no match at p.
QuestionStartEnd(s, p) ==
    LET a == SkipWhile(s, p, WS)
        b == SkipWhile(s, a, DigitSet)
        c == SkipWhile(s, b, WS)
    IN  IF /\ (p = 1 \/ s[p - 1] = "LF")
           /\ b > a
           /\ c <= Len(s)
           /\ s[c] \in Punct
        THEN SkipWhile(s, c + 1, WS)
        ELSE 0

\* QUESTION_START_RE.finditer(s) from position p: the start of each match.
RECURSIVE QuestionStarts(_, _)
QuestionStarts(s, p) ==
    IF p > Len(s) THEN <<>>
    ELSE LET e == QuestionStartEnd(s, p)
         IN  IF e > 0 THEN <<p>> \o QuestionStarts(s, e)
             ELSE QuestionStarts(s, p + 1)

\* OPTION_LINE_RE.match(ln): ^\s*(letter)[\.\)\-:]\s*(.+)
OptionLineMatch(ln) ==
    LET a == SkipWhile(ln, 1, WS)
    IN  /\ a + 1 <= Len(ln)
        /\ ln[a] \in OptLetters
        /\ ln[a + 1] \in Punct
        /\ \E q \in (a + 2)..Len(ln) :
              /\ ln[q] # "LF"
              /\ \A k \in (a + 2)..(q - 1) : ln[k] \in WS

\* The keywords of ANSWER_LINE_RE, in the order of the alternation:
\* answer | ans | al-ijaba | jawab | correct | as-sahih
AnswerKeywords ==
    << <<"a","n","s","w","e","r">>,
       <<"a","n","s">>,
       <<"AR_ALEF","AR_LAM","AR_ALEF_HAMZA_BELOW","AR_JEEM","AR_ALEF","AR_BEH","AR_TEH_MARBUTA">>,
       <<"AR_JEEM","AR_WAW","AR_ALEF","AR_BEH">>,
       <<"c","o","r","r","e","c","t">>,
       <<"AR_ALEF","AR_LAM","AR_SAD","AR_HAH","AR_YEH","AR_HAH">> >>

\* ANSWER_LINE_RE = (?i)\b(keyword)\b\s*[:\-]?\s*(.+) tried at position p of a
\* line (a text without line breaks): the position where group 2, the payload,
\* starts, 0 when there is no match at p.  When the optional parts swallow the
\* rest of the line the expression backtracks and the payload is the last
\* character.
AnswerPayloadAt(ln, p) ==
    LET ks == {k \in 1..Len(AnswerKeywords) :
                  /\ WordAt(ln, p, AnswerKeywords[k])
                  /\ p + Len(AnswerKeywords[k]) <= Len(ln)}
    IN  IF ks = {} THEN 0
        ELSE LET e == p + Len(AnswerKeywords[Min(ks)])
                 a == SkipWhile(ln, e, WS)
                 c == IF a <= Len(ln) /\ ln[a] \in {":", "-"}
                      THEN SkipWhile(ln, a + 1, WS)
                      ELSE a
             IN  IF c <= Len(ln) THEN c ELSE Len(ln)

\* The scan of ANSWER_LINE_RE.search(ln) from position p on: the payload's
\* start at the leftmost match, 0 when no position matches.
RECURSIVE AnswerSearchFrom(_, _)
AnswerSearchFrom(ln, p) ==
    IF p > Len(ln) THEN 0
    ELSE IF AnswerPayloadAt(ln, p) > 0 THEN AnswerPayloadAt(ln, p)
    ELSE AnswerSearchFrom(ln, p + 1)

\* ANSWER_LINE_RE.search(ln): the payload's start at the leftmost match, 0
\* when the line does not match.
AnswerSearch(ln) == AnswerSearchFrom(ln, 1)

MarkChars == {"CHECK", "HCHECK", "WCHECK", "*"}

WordCorrect == <<"c","o","r","r","e","c","t">>

WordSahih == <<"AR_SAD","AR_HAH","AR_YEH","AR_HAH">>

\* MARK_RE tried at position p: the length of the match, 0 when there is none.
MarkLenAt(s, p) ==
    IF s[p] \in MarkChars THEN 1
    ELSE IF WordAt(s, p, WordCorrect) THEN Len(WordCorrect)
    ELSE IF WordAt(s, p, WordSahih) THEN Len(WordSahih)
    ELSE 0

\* MARK_RE.search(s)
MarkSearch(s) == \E p \in 1..Len(s) : MarkLenAt(s, p) > 0

\* MARK_RE.sub('', s), from position p on.
RECURSIVE RemoveMarks(_, _)
RemoveMarks(s, p) ==
    IF p > Len(s) THEN <<>>
    ELSE LET n == MarkLenAt(s, p)
         IN  IF n > 0 THEN RemoveMarks(s, p + n)
             ELSE <<s[p]>> \o RemoveMarks(s, p + 1)

(***************************************************************************)
(* Helpers                                                                 *)
(***************************************************************************)

\* ARABIC_LETTER_MAP
ARABIC_LETTER_MAP ==
    [AR_ALEF_HAMZA |-> "a", AR_ALEF |-> "a", AR_BEH |-> "b",
     AR_JEEM |-> "c", AR_DAL |-> "d", AR_HEH |-> "e"]

letter_to_index(letter) ==
    LET l == Lower(letter)
        m == IF l \in DOMAIN ARABIC_LETTER_MAP THEN ARABIC_LETTER_MAP[l] ELSE l
    IN  IF m \in LowerSet THEN Some(LatinIndex(m)) ELSE None

\* The position after the prefix ^[\(\[]?[A-Za-z\u0621-\u064A][\)\]\.\-:]\s*
\* of t, 1 when t has no such prefix.
OptionPrefixEnd(t) ==
    LET b == IF Len(t) >= 1 /\ t[1] \in {"(", "["} THEN 2 ELSE 1
    IN  IF /\ b + 1 <= Len(t)
           /\ t[b] \in LowerSet \cup UpperSet \cup ArabicRange(1569, 1610)
           /\ t[b + 1] \in {")", "]", ".", "-", ":"}
        THEN SkipWhile(t, b + 2, WS)
        ELSE 1

clean_option_text(t) == Strip(RemoveMarks(From(t, OptionPrefixEnd(t)), 1))

(***************************************************************************)
(* Block extraction                                                        *)
(***************************************************************************)

\* The first position q >= p where a run of two or more line feeds starts,
\* 0 if there is none.
RECURSIVE FindBlankGap(_, _)
FindBlankGap(s, p) ==
    IF p + 1 > Len(s) THEN 0
    ELSE IF s[p] = "LF" /\ s[p + 1] = "LF" THEN p
    ELSE FindBlankGap(s, p + 1)

\* re.split(r'\n{2,}', s)
RECURSIVE SplitBlankLines(_)
SplitBlankLines(s) ==
    LET p == FindBlankGap(s, 1)
    IN  IF p = 0 THEN <<s>>
        ELSE <<SubSeq(s, 1, p - 1)>>
                \o SplitBlankLines(From(s, SkipWhile(s, p, {"LF"})))

\* [x.strip() for x in parts if x.strip()]
StripNonEmpty(parts) ==
    SelectSeq([i \in 1..Len(parts) |-> Strip(parts[i])], LAMBDA x : x # <<>>)

extract_blocks(s) ==
    LET starts == QuestionStarts(s, 1)
    IN  IF starts = <<>> THEN StripNonEmpty(SplitBlankLines(s))
        ELSE [i \in 1..Len(starts) |->
                 Strip(SubSeq(s, starts[i],
                              IF i < Len(starts) THEN starts[i + 1] - 1 ELSE Len(s)))]

\* str.splitlines(), the empty lines between two adjacent breaks included
\* (the callers drop them).
RECURSIVE SplitLines(_)
SplitLines(s) ==
    LET p == FindFirst(s, 1, {"LF", "CR"})
    IN  IF p > Len(s) THEN <<s>>
        ELSE <<SubSeq(s, 1, p - 1)>> \o SplitLines(From(s, p + 1))

\* [ln.strip() for ln in block.splitlines() if ln.strip()]
block_lines(block) == StripNonEmpty(SplitLines(block))

(***************************************************************************)
(* Question text                                                           *)
(***************************************************************************)

\* The position after the prefix ^\s*\d+[\.\)\-:]\s* of q, 1 when q has none.
NumberingEnd(q) ==
    LET a == SkipWhile(q, 1, WS)
        b == SkipWhile(q, a, DigitSet)
    IN  IF b > a /\ b <= Len(q) /\ q[b] \in Punct
        THEN SkipWhile(q, b + 1, WS)
        ELSE 1

extract_question_text(lines) ==
    LET stops == {i \in 1..Len(lines) :
                     OptionLineMatch(lines[i]) \/ AnswerSearch(lines[i]) > 0}
        n == IF stops = {} THEN Len(lines) ELSE Min(stops) - 1
        q == Join(SubSeq(lines, 1, n), <<" ">>)
    IN  Strip(From(q, NumberingEnd(q)))

(***************************************************************************)
(* Options                                                                 *)
(***************************************************************************)

\* One loop of extract_options over the items that its test selected:
\* every item is appended cleaned, and the last item with a mark sets
\* marked_correct to the number of options before it.
CollectOptions(sel) ==
    LET ms == {i \in 1..Len(sel) : MarkSearch(sel[i])}
    IN  [options |-> [i \in 1..Len(sel) |-> clean_option_text(sel[i])],
         marked  |-> IF ms = {} THEN None ELSE Some(Max(ms) - 1)]

\* INLINE_OPTION_SPLIT_RE = (?:(?<=\s)|^)(?=[letter][\.\)\-:]): the positions
\* where it matches, each the first character of a new part.
InlineSplitPoints(s) ==
    {p \in 1..(Len(s) - 1) :
        /\ (p = 1 \/ s[p - 1] \in WS)
        /\ s[p] \in OptLetters
        /\ s[p + 1] \in Punct}

\* INLINE_OPTION_SPLIT_RE.split(s)
RECURSIVE InlineSplitFrom(_, _, _)
InlineSplitFrom(s, from, pts) ==
    IF pts = {} THEN <<SubSeq(s, from, Len(s))>>
    ELSE LET p == Min(pts)
         IN  <<SubSeq(s, from, p - 1)>> \o InlineSplitFrom(s, p, pts \ {p})

InlineSplit(s) == InlineSplitFrom(s, 1, InlineSplitPoints(s))

\* re.match(r'^\s*[\-\*\u2022]\s+', ln)
BulletMatch(ln) ==
    LET a == SkipWhile(ln, 1, WS)
    IN  /\ a + 1 <= Len(ln)
        /\ ln[a] \in {"-", "*", "BULLET"}
        /\ ln[a + 1] \in WS

extract_options(lines) ==
    LET lettered == CollectOptions(SelectSeq(lines, OptionLineMatch))
        inline   == CollectOptions(SelectSeq(InlineSplit(Join(lines, <<" ">>)),
                                             LAMBDA part : OptionLineMatch(Strip(part))))
        bullets  == CollectOptions(SelectSeq(lines, BulletMatch))
    IN  IF lettered.options # <<>> THEN lettered
        ELSE IF inline.options # <<>> THEN inline
        ELSE bullets

(***************************************************************************)
(* True / False                                                            *)
(***************************************************************************)

TRUE_FALSE_SETS ==
    << << <<"t","r","u","e">>, <<"f","a","l","s","e">> >>,
       << <<"AR_SAD","AR_HAH">>, <<"AR_KHAH","AR_TAH","AR_ALEF_HAMZA">> >>,
       << <<"y","e","s">>, <<"n","o">> >> >>

\* str.upper() of one character.
Upper(c) ==
    IF c \in LowerSet
    THEN UpperLatin[CHOOSE i \in 1..26 : LowerLatin[i] = c]
    ELSE c

\* str.upper() in the place of str.capitalize()
CapitalizeUpper(w) == [i \in 1..Len(w) |-> Upper(w[i])]

\* str.capitalize()
Capitalize(w) ==
    [i \in 1..Len(w) |-> IF i = 1 THEN Upper(w[i]) ELSE Lower(w[i])]

\* The scan starts after the first line of the block.
ScanTrueFalseAfterFirst(t, f, lines) ==
    LET hits == {i \in 2..Len(lines) : HasWord(lines[i], t) \/ HasWord(lines[i], f)}
    IN  IF hits = {} THEN None
        ELSE IF HasWord(lines[Min(hits)], t) THEN Some(0)
        ELSE Some(1)

\* The scan of detect_true_false over the lines for the pair (t, f): the
\* first line holding one of the two words decides, the affirmative word
\* being looked for first in each line.
ScanTrueFalse(t, f, lines) ==
    LET hits == {i \in 1..Len(lines) : HasWord(lines[i], t) \/ HasWord(lines[i], f)}
    IN  IF hits = {} THEN None
        ELSE IF HasWord(lines[Min(hits)], t) THEN Some(0)
        ELSE Some(1)

\* The result None is [active |-> FALSE]; the result (options, correct) is
\* [active |-> TRUE, options, correct].
detect_true_false(question_text, lines) ==
    LET ks == {k \in 1..Len(TRUE_FALSE_SETS) :
                  \/ HasWord(question_text, TRUE_FALSE_SETS[k][1])
                  \/ HasWord(question_text, TRUE_FALSE_SETS[k][2])}
    IN  IF ks = {} THEN [active |-> FALSE, options |-> <<>>, correct |-> None]
        ELSE LET t == TRUE_FALSE_SETS[Min(ks)][1]
                 f == TRUE_FALSE_SETS[Min(ks)][2]
             IN  [active  |-> TRUE,
                  options |-> <<Capitalize(t), Capitalize(f)>>,
                  correct |-> ScanTrueFalse(t, f, lines)]

(***************************************************************************)
(* Correct answer                                                          *)
(***************************************************************************)

\* [A-Za-z] and the Arabic range of the letter search in the payload.
AnswerLetters == LowerSet \cup UpperSet \cup ArabicRange(1571, 1607)

\* int(digits)
RECURSIVE IntOf(_)
IntOf(ds) ==
    IF ds = <<>> THEN 0
    ELSE 10 * IntOf(SubSeq(ds, 1, Len(ds) - 1)) + DigitVal(ds[Len(ds)])

\* What one line gives detect_correct_answer: the index it returns there, or
\* None when the loop goes on to the next line (the line does not match, or
\* its payload holds neither a letter with an index nor a number).
AnswerOfLine(ln) ==
    LET s == AnswerSearch(ln)
    IN  IF s = 0 THEN None
        ELSE LET payload == From(ln, s)
                 lp == FindFirst(payload, 1, AnswerLetters)
                 idx == IF lp <= Len(payload) THEN letter_to_index(payload[lp]) ELSE None
                 np == FindFirst(payload, 1, DigitSet)
                 ne == SkipWhile(payload, np, DigitSet)
             IN  IF idx # None THEN idx
                 ELSE IF np <= Len(payload)
                      THEN Some(IntOf(SubSeq(payload, np, ne - 1)) - 1)
                 ELSE None

\* The first matching line decides, also when it gives no index.
detect_correct_answer_first_match(lines, options) ==
    LET ms == {i \in 1..Len(lines) : AnswerSearch(lines[i]) > 0}
    IN  IF ms = {} THEN None ELSE AnswerOfLine(lines[Min(ms)])

detect_correct_answer(lines, options) ==
    LET hits == {i \in 1..Len(lines) : AnswerOfLine(lines[i]) # None}
    IN  IF hits = {} THEN None ELSE AnswerOfLine(lines[Min(hits)])

(***************************************************************************)
(* Shuffling                                                               *)
(***************************************************************************)

\* The orders random.shuffle can leave n elements in.
Perms(n) == {f \in [1..n -> 1..n] : \A i, j \in 1..n : f[i] = f[j] => i = j}

\* shuffled.index(original), 0-based; None stands for the ValueError.
IndexOf(seq, x) ==
    LET is == {i \in 1..Len(seq) : seq[i] = x}
    IN  IF is = {} THEN None ELSE Some(Min(is) - 1)

\* The index is not looked up again after the shuffle.
shuffle_keeps_index(options, correct, perm) ==
    [ok |-> TRUE, options |-> [i \in 1..Len(options) |-> options[perm[i]]],
     index |-> correct]

\* The new index is counted from one.
shuffle_index_from_one(options, correct, perm) ==
    LET shuffled == [i \in 1..Len(options) |-> options[perm[i]]]
    IN  [ok |-> TRUE, options |-> shuffled,
         index |-> IndexOf(shuffled, options[correct + 1])[1] + 1]

\* The lookup fails when the text of the correct option is not unique.
shuffle_unique_text_only(options, correct, perm) ==
    LET shuffled == [i \in 1..Len(options) |-> options[perm[i]]]
        same == {i \in 1..Len(shuffled) : shuffled[i] = options[correct + 1]}
    IN  IF Cardinality(same) # 1
        THEN [ok |-> FALSE, options |-> <<>>, index |-> 0]
        ELSE [ok |-> TRUE, options |-> shuffled, index |-> Min(same) - 1]

\* shuffle_with_correct when random.shuffle draws the order perm.  The
\* result None is [ok |-> FALSE].
shuffle_with_correct(options, correct, perm) ==
    LET shuffled == [i \in 1..Len(options) |-> options[perm[i]]]
        new_index == IndexOf(shuffled, options[correct + 1])
    IN  IF new_index = None
        THEN [ok |-> FALSE, options |-> <<>>, index |-> 0]
        ELSE [ok |-> TRUE, options |-> shuffled, index |-> new_index[1]]

(***************************************************************************)
(* parse_message                                                           *)
(***************************************************************************)

\* The mark is preferred to the answer line.
final_correct_mark_first(answer, marked) ==
    IF marked # None THEN marked ELSE answer

\* correct = detect_correct_answer(...); if correct is None and marked is
\* not None: correct = marked
final_correct(answer, marked) ==
    IF answer = None /\ marked # None THEN marked ELSE answer

\* The negation of the test that fails a block:
\* not options or correct is None or not (0 <= correct < len(options))
valid_choice(options, correct) ==
    /\ options # <<>>
    /\ correct # None
    /\ 0 <= correct[1]
    /\ correct[1] < Len(options)

\* failed = [block] in the place of failed.append(block)
record_failure_overwrite(fl, block) == <<block>>

\* failed.insert(0, block) in the place of failed.append(block)
record_failure_front(fl, block) == <<block>> \o fl

\* failed.append(block)
record_failure(fl, block) == Append(fl, block)

\* questions.append((qtext, shuffled[0], shuffled[1]))
record_question(qs, qtext, shuffled) ==
    Append(qs, [prompt |-> qtext, options |-> shuffled.options,
                correctIndex |-> shuffled.index])

\* The locals of an iteration once the options and the answer are known.
Locals(block, lines, qtext, tf, options, marked, answer, correct) ==
    [block |-> block, lines |-> lines, short |-> FALSE, qtext |-> qtext,
     tf |-> tf, options |-> options, marked |-> marked,
     answer |-> answer, correct |-> correct]

\* else: options, marked = extract_options(lines);
\*       correct = detect_correct_answer(lines, options) ...
PlainLocals(block, lines, qtext, eo, answer) ==
    Locals(block, lines, qtext, FALSE, eo.options, eo.marked, answer,
           final_correct(answer, eo.marked))

PlainBranch(block, lines, qtext, eo) ==
    PlainLocals(block, lines, qtext, eo, detect_correct_answer(lines, eo.options))

\* tf = detect_true_false(qtext, lines); if tf: options, correct = tf
TrueFalseBranch(block, lines, qtext, tf) ==
    IF tf.active
    THEN Locals(block, lines, qtext, TRUE, tf.options, None, None, tf.correct)
    ELSE PlainBranch(block, lines, qtext, extract_options(lines))

WithQuestionText(block, lines, qtext) ==
    TrueFalseBranch(block, lines, qtext, detect_true_false(qtext, lines))

\* if len(lines) < 2: failed.append(block); continue
WithLines(block, lines) ==
    IF Len(lines) < 2
    THEN [block |-> block, lines |-> lines, short |-> TRUE, qtext |-> <<>>,
          tf |-> FALSE, options |-> <<>>, marked |-> None,
          answer |-> None, correct |-> None]
    ELSE WithQuestionText(block, lines, extract_question_text(lines))

\* The locals of one iteration of the loop of parse_message, up to the
\* validation: lines, qtext, whether detect_true_false returned a result
\* (tf), options, marked, the result of detect_correct_answer (answer) and
\* correct.  With fewer than two lines (short) nothing else is computed.
Iteration(block) == WithLines(block, block_lines(block))

\* cur before the first iteration.
NoIteration ==
    [block |-> <<>>, lines |-> <<>>, short |-> FALSE, qtext |-> <<>>,
     tf |-> FALSE, options |-> <<>>, marked |-> None, answer |-> None,
     correct |-> None, outcome |-> "none"]

Outcome(it, o) ==
    [block |-> it.block, lines |-> it.lines, short |-> it.short,
     qtext |-> it.qtext, tf |-> it.tf, options |-> it.options,
     marked |-> it.marked, answer |-> it.answer, correct |-> it.correct,
     outcome |-> o]

(***************************************************************************)
(* Rate limiting (src/rate_limit.py)                                       *)
(*                                                                         *)
(* Time is counted in whole seconds.  The dictionary user_last_request is  *)
(* a function from the users that have an entry to their time stamps.      *)
(***************************************************************************)

USER_COOLDOWN_SECONDS == 5

USER_TTL_SECONDS == 3600

MaxUsers == 2

Users == 1..MaxUsers

\* user_last_request = {}
NoEntries == [uid \in {} |-> 0]

\* user_last_request.get(user_id)
Get(entries, user_id) ==
    IF user_id \in DOMAIN entries THEN Some(entries[user_id]) ELSE None

\* The truth value of "last" in "if last and ...": None and 0.0 are false.
Truthy(last) == last # None /\ last[1] # 0

\* if last and now - last < USER_COOLDOWN_SECONDS
limited(last, now) == Truthy(last) /\ now - last[1] < USER_COOLDOWN_SECONDS

\* user_last_request[user_id] = now
SetEntry(entries, user_id, now) ==
    [uid \in DOMAIN entries \cup {user_id} |->
        IF uid = user_id THEN now ELSE entries[uid]]

\* No time to live: every entry that is not in the future is deleted.
to_delete_without_ttl(entries, now) ==
    {uid \in DOMAIN entries : now - entries[uid] >= 0}

\* to_delete of cleanup_users, when its time.time() reads now.
to_delete(entries, now) ==
    {uid \in DOMAIN entries : now - entries[uid] > USER_TTL_SECONDS}

\* cleanup_users(), when its time.time() reads now.
cleanup_users(entries, now) ==
    [uid \in DOMAIN entries \ to_delete(entries, now) |-> entries[uid]]

\* No call of check_rate_limit yet.
NoCall ==
    [n |-> 0, user |-> 0, now |-> 0, allowed |-> FALSE, remaining |-> 0,
     before |-> NoEntries, prev |-> None]

\* The rate limiter before its first call.
RateIdle ==
    /\ clock = 1
    /\ user_last_request = NoEntries
    /\ allowed_at = [uid \in Users |-> None]
    /\ call = NoCall

(***************************************************************************)
(* Spec: parse_message on a message made of lines of a small library       *)
(***************************************************************************)

\* "1. The sky is true."
LineSky ==
    <<"1","."," ","T","h","e"," ","s","k","y"," ","i","s"," ","t","r","u","e",".">>

\* "true"
LineTrue ==
    <<"t","r","u","e">>

\* "false"
LineFalse ==
    <<"f","a","l","s","e">>

\* "5. Who wrote Hamlet?"
LineHamlet ==
    <<"5","."," ","W","h","o"," ","w","r","o","t","e"," ","H","a","m","l","e","t","?">>

\* "I have no idea."
LineNoIdea ==
    <<"I"," ","h","a","v","e"," ","n","o"," ","i","d","e","a",".">>

\* "a) Rome *"
LineRome ==
    <<"a",")"," ","R","o","m","e"," ","*">>

\* "b) Paris"
LineParis ==
    <<"b",")"," ","P","a","r","i","s">>

\* "Answer: b"
LineAnswerB ==
    <<"A","n","s","w","e","r",":"," ","b">>

\* "Answer: a"
LineAnswerA ==
    <<"A","n","s","w","e","r",":"," ","a">>

\* "Answer: ?"
LineAnswerNone ==
    <<"A","n","s","w","e","r",":"," ","?">>

\* ""
LineBlank ==
    <<>>

LineLib ==
    <<LineSky, LineTrue, LineFalse, LineHamlet, LineNoIdea,
      LineRome, LineParis, LineAnswerA, LineAnswerB, LineAnswerNone, LineBlank>>

\* The largest number of lines of a message.
MaxLines == 4

\* The messages: up to MaxLines lines of the library, joined by line feeds.
Messages ==
    {Join([i \in 1..Len(ix) |-> LineLib[ix[i]]], <<"LF">>) :
        ix \in UNION {[1..n -> 1..Len(LineLib)] : n \in 1..MaxLines}}

Init ==
    /\ message \in Messages
    /\ text = <<>>
    /\ blocks = <<>>
    /\ bi = 0
    /\ questions = <<>>
    /\ failed = <<>>
    /\ cur = NoIteration
    /\ pc = "start"
    /\ RateIdle

\* text = normalize_text(message); blocks = extract_blocks(text)
Start ==
    /\ pc = "start"
    /\ text' = normalize_text(message)
    /\ blocks' = extract_blocks(text')
    /\ pc' = "loop"
    /\ UNCHANGED <<message, bi, questions, failed, cur>>
    /\ UNCHANGED rateVars

\* The end of an iteration whose block passed the validation, when
\* shuffle_with_correct returned shuffled.
Shuffled(it, shuffled) ==
    IF ~shuffled.ok
    THEN /\ failed' = record_failure(failed, it.block)
         /\ cur' = Outcome(it, "unshuffled")
         /\ UNCHANGED questions
    ELSE /\ questions' = record_question(questions, it.qtext, shuffled)
         /\ cur' = Outcome(it, "question")
         /\ UNCHANGED failed

\* The body of the loop, given the locals it of the iteration.
Body(it) ==
    IF it.short
    THEN /\ failed' = record_failure(failed, it.block)
         /\ cur' = Outcome(it, "short")
         /\ UNCHANGED questions
    ELSE IF ~valid_choice(it.options, it.correct)
    THEN /\ failed' = record_failure(failed, it.block)
         /\ cur' = Outcome(it, "invalid")
         /\ UNCHANGED questions
    ELSE \E perm \in Perms(Len(it.options)) :
            Shuffled(it, shuffle_with_correct(it.options, it.correct[1], perm))

\* One iteration of "for block in blocks".
ParseBlock ==
    /\ pc = "loop"
    /\ bi < Len(blocks)
    /\ Body(Iteration(blocks[bi + 1]))
    /\ bi' = bi + 1
    /\ UNCHANGED <<message, text, blocks, pc>>
    /\ UNCHANGED rateVars

\* return questions, failed
Return ==
    /\ pc = "loop"
    /\ bi = Len(blocks)
    /\ pc' = "done"
    /\ UNCHANGED <<message, text, blocks, bi, questions, failed, cur>>
    /\ UNCHANGED rateVars

Next == Start \/ ParseBlock \/ Return

Spec == Init /\ [][Next]_vars

(***************************************************************************)
(* Properties of parse_message                                             *)
(***************************************************************************)

\* The iteration recorded in cur went past the "fewer than two lines" test
\* and took the branch without a true/false result.
PlainIteration == cur.outcome # "none" /\ ~cur.short /\ ~cur.tf

\* The last question appended.
LastQuestion == questions[Len(questions)]

\* The locals it are those of a block that fails the tests of parse_message
\* that come before the shuffle.
FailsTests(it) == it.short \/ ~valid_choice(it.options, it.correct)

\* C1: every block ends in exactly one of the two lists: at every point of
\* the loop the lists hold as many entries as blocks were consumed, and at
\* the return as many as there are blocks (blocks is what extract_blocks
\* produced from the normalized text).
C1_TotalCoverage ==
    /\ Len(questions) + Len(failed) = bi
    /\ pc = "done" => Len(questions) + Len(failed) = Len(blocks)

C1_Witness ==
    /\ pc = "done"
    /\ Len(blocks) >= 3
    /\ Len(questions) >= 1
    /\ Len(failed) >= 2

\* C2: every returned question has at least one option and a correct index
\* that is an index of its options.
C2_Bounds ==
    \A i \in 1..Len(questions) :
        /\ Len(questions[i].options) >= 1
        /\ 0 <= questions[i].correctIndex
        /\ questions[i].correctIndex < Len(questions[i].options)

C2_Witness ==
    /\ pc = "done"
    /\ \E i \in 1..Len(questions) :
          /\ Len(questions[i].options) >= 2
          /\ questions[i].correctIndex = Len(questions[i].options) - 1

\* C3: whatever order the shuffle draws, the returned question has at its
\* correct index the text of the option that was correct before the shuffle.
C3_ShufflePreservesCorrect ==
    cur.outcome = "question" =>
        LastQuestion.options[LastQuestion.correctIndex + 1]
            = cur.options[cur.correct[1] + 1]

C3_Witness ==
    /\ cur.outcome = "question"
    /\ LastQuestion.options # cur.options
    /\ LastQuestion.correctIndex # cur.correct[1]
    /\ ~cur.tf

\* Scenario D: "5. Who wrote Hamlet?" / "I have no idea."
ScenarioD == Join(<<LineHamlet, LineNoIdea>>, <<"LF">>)

\* C4: parsing scenario D returns no question and one failed block, the
\* text of the block.
C4_ScenarioD ==
    (message = ScenarioD /\ pc = "done") =>
        questions = <<>> /\ failed = <<ScenarioD>>

\* Scenario C: "1. The sky is true." / "true"
ScenarioC == Join(<<LineSky, LineTrue>>, <<"LF">>)

OptionTrue == <<"T","r","u","e">>

OptionFalse == <<"F","a","l","s","e">>

\* C5 as stated: parsing scenario C returns one question whose options are
\* exactly ["True", "False"] with the correct index 0, in every run.
C5_ScenarioC_Exact ==
    (message = ScenarioC /\ pc = "done") =>
        /\ Len(questions) = 1
        /\ questions[1].options = <<OptionTrue, OptionFalse>>
        /\ questions[1].correctIndex = 0

\* C5 amended: parsing scenario C returns one question and no failed block;
\* before the shuffle its options are exactly ["True", "False"] with the
\* correct index 0, and the returned options are these two in either order
\* with "True" at the returned correct index.
C5_ScenarioC_Shuffled ==
    (message = ScenarioC /\ pc = "done") =>
        /\ Len(questions) = 1
        /\ failed = <<>>
        /\ cur.options = <<OptionTrue, OptionFalse>>
        /\ cur.correct = Some(0)
        /\ questions[1].options \in {<<OptionTrue, OptionFalse>>, <<OptionFalse, OptionTrue>>}
        /\ questions[1].options[questions[1].correctIndex + 1] = OptionTrue

C5_Witness ==
    /\ message = ScenarioC
    /\ pc = "done"
    /\ Len(questions) = 1
    /\ questions[1].options = <<OptionFalse, OptionTrue>>
    /\ questions[1].correctIndex = 1

\* C6: where the true/false detector did not activate, the index of the
\* answer line, when there is one, is the correct index that is validated,
\* whatever option is marked: out of bounds it fails the block, in bounds
\* the question returned has the option of that index as its correct option.
\* The marked index is used only when there is no answer index.
C6_AnswerOverridesMark ==
    PlainIteration =>
        /\ cur.answer # None => cur.correct = cur.answer
        /\ cur.answer = None => cur.correct = cur.marked
        /\ (cur.answer # None /\ ~(0 <= cur.answer[1] /\ cur.answer[1] < Len(cur.options))) =>
              /\ cur.outcome = "invalid"
              /\ failed # <<>>
              /\ failed[Len(failed)] = cur.block
        /\ (cur.answer # None /\ 0 <= cur.answer[1] /\ cur.answer[1] < Len(cur.options)) =>
              /\ cur.outcome = "question"
              /\ LastQuestion.options[LastQuestion.correctIndex + 1]
                    = cur.options[cur.answer[1] + 1]

C6_Witness ==
    /\ PlainIteration
    /\ cur.answer # None
    /\ cur.marked # None
    /\ cur.answer # cur.marked
    /\ cur.outcome = "question"
    /\ cur.options[cur.answer[1] + 1] # cur.options[cur.marked[1] + 1]

\* The other case of C6: the answer index is out of bounds, the marked index
\* is in bounds, and the block fails.
C6_WitnessOutOfBounds ==
    /\ PlainIteration
    /\ cur.answer # None
    /\ cur.marked # None
    /\ cur.answer[1] >= Len(cur.options)
    /\ cur.marked[1] < Len(cur.options)
    /\ cur.outcome = "invalid"

\* What C7 asks of a step that consumes the block with the locals it: a
\* failing block is appended, as its unmodified text, at the end of failed
\* and questions is left alone; a block that passes gives one question,
\* with the prompt of that block, appended at the end of questions, and
\* failed is left alone.  Nothing but the block itself decides which.
ConsumesInOrder(it) ==
    IF FailsTests(it)
    THEN /\ failed' = Append(failed, it.block)
         /\ questions' = questions
    ELSE /\ failed' = failed
         /\ Len(questions') = Len(questions) + 1
         /\ SubSeq(questions', 1, Len(questions)) = questions
         /\ questions'[Len(questions')].prompt = it.qtext

\* C7: every step either leaves both lists alone or consumes the next block,
\* in order, into the list its own outcome selects, so that failed is the
\* in-order subsequence of the failing blocks and questions is in the order
\* of the succeeding blocks; a failure does not end the loop: the function
\* returns only when every block is consumed.  (cur' holds the locals of the
\* iteration the step ran.)
C7_OrderAndIsolation ==
    [][ /\ bi' \in {bi, bi + 1}
        /\ bi' = bi => (failed' = failed /\ questions' = questions)
        /\ bi' = bi + 1 => (cur'.block = blocks[bi + 1] /\ ConsumesInOrder(cur'))
        /\ pc' = "done" => bi' = Len(blocks) ]_vars

C7_Witness ==
    /\ pc = "done"
    /\ Len(blocks) = 2
    /\ Len(questions) = 1
    /\ failed = <<blocks[2]>>
    /\ cur.block = blocks[2]
    /\ cur.outcome \in {"short", "invalid"}

\* The pair k of TRUE_FALSE_SETS is the one the iteration in cur used.
UsedPair(k) ==
    /\ cur.tf
    /\ cur.options = <<Capitalize(TRUE_FALSE_SETS[k][1]), Capitalize(TRUE_FALSE_SETS[k][2])>>

\* The line is the word w alone.
IsWordAlone(ln, w) == Len(ln) = Len(w) /\ MatchesAt(ln, 1, w)

\* C9: when the prompt line mentions the affirmative word of the pair and a
\* later line is the negative word alone (no later line holding the
\* affirmative word), the line marking the answer decides: the index is 1.
C9_AnswerLineDecides ==
    \A k \in 1..Len(TRUE_FALSE_SETS) :
        ( /\ UsedPair(k)
          /\ HasWord(cur.lines[1], TRUE_FALSE_SETS[k][1])
          /\ ~IsWordAlone(cur.lines[1], TRUE_FALSE_SETS[k][1])
          /\ \E i \in 2..Len(cur.lines) : IsWordAlone(cur.lines[i], TRUE_FALSE_SETS[k][2])
          /\ \A i \in 2..Len(cur.lines) : ~HasWord(cur.lines[i], TRUE_FALSE_SETS[k][1]) )
        => cur.correct = Some(1)

\* The lines of cur that match ANSWER_LINE_RE.
AnswerLines == {i \in 1..Len(cur.lines) : AnswerSearch(cur.lines[i]) > 0}

\* C10 as stated: the result of detect_correct_answer is the index derived
\* from the first line that matches the answer-line pattern.
C10_FirstMatchingLine ==
    (PlainIteration /\ AnswerLines # {}) =>
        cur.answer = AnswerOfLine(cur.lines[Min(AnswerLines)])

\* C10 amended: the result is the index derived from the first line that
\* matches the answer-line pattern and whose payload holds a letter with an
\* index or a number; matching lines before it whose payload holds neither
\* are passed over, and the result is None when there is no such line.
C10_FirstLineWithIndex ==
    PlainIteration =>
        /\ cur.answer = None =>
              \A i \in 1..Len(cur.lines) : AnswerOfLine(cur.lines[i]) = None
        /\ cur.answer # None =>
              \E i \in AnswerLines :
                  /\ AnswerOfLine(cur.lines[i]) = cur.answer
                  /\ \A j \in 1..(i - 1) : AnswerOfLine(cur.lines[j]) = None

\* An earlier matching line without an index is passed over, a later line
\* gives the index, and the index is not an index of the options.
C10_Witness ==
    /\ PlainIteration
    /\ cur.answer # None
    /\ cur.answer # AnswerOfLine(cur.lines[Min(AnswerLines \cup {Len(cur.lines)})])
    /\ AnswerLines # {}
    /\ cur.answer[1] >= Len(cur.options)

\* The options of cur are those of a pair of TRUE_FALSE_SETS.
TrueFalseOptions ==
    \E k \in 1..Len(TRUE_FALSE_SETS) :
        cur.options = <<Capitalize(TRUE_FALSE_SETS[k][1]), Capitalize(TRUE_FALSE_SETS[k][2])>>

\* C11: a block on which detect_true_false activated has a correct index, 0
\* or 1, never None; it is not failed but returned as a question whose
\* options are the two words of the pair, with the word the scan chose at the
\* correct index; extract_options and detect_correct_answer are not run on
\* it (no marked index, no answer index).
C11_TrueFalseNeverFails ==
    cur.tf =>
        /\ cur.correct \in {Some(0), Some(1)}
        /\ TrueFalseOptions
        /\ cur.marked = None
        /\ cur.answer = None
        /\ cur.outcome = "question"
        /\ Len(LastQuestion.options) = 2
        /\ LastQuestion.options[LastQuestion.correctIndex + 1]
              = cur.options[cur.correct[1] + 1]

\* A true/false block with an answer line naming the other index: the block
\* is returned as a question and the answer line is not followed.
C11_Witness ==
    /\ cur.tf
    /\ cur.outcome = "question"
    /\ \E i \in 1..Len(cur.lines) :
          /\ AnswerOfLine(cur.lines[i]) # None
          /\ AnswerOfLine(cur.lines[i]) # cur.correct

\* A true/false block with lettered option lines, one of them marked: the
\* options returned are the two words of the pair.
C11_WitnessLettered ==
    /\ cur.tf
    /\ cur.outcome = "question"
    /\ extract_options(cur.lines).options # <<>>
    /\ extract_options(cur.lines).marked # None

\* Two options of cur have the same text.
DuplicateOptions ==
    \E i, j \in 1..Len(cur.options) : i # j /\ cur.options[i] = cur.options[j]

\* C12: shuffle_with_correct does not return None: for the options of the
\* iteration, every correct index within them and every order the shuffle
\* may draw, it returns an order of the same length and an index in it, also
\* when option texts repeat; no block is failed at the shuffle step, and a
\* block that passed the validation is returned as a question.
C12_ShuffleNeverNone ==
    /\ cur.outcome # "unshuffled"
    /\ \A c \in 0..(Len(cur.options) - 1) : \A perm \in Perms(Len(cur.options)) :
          /\ shuffle_with_correct(cur.options, c, perm).ok
          /\ Len(shuffle_with_correct(cur.options, c, perm).options) = Len(cur.options)
          /\ shuffle_with_correct(cur.options, c, perm).index \in 0..(Len(cur.options) - 1)
    /\ (cur.outcome # "none" /\ ~cur.short /\ valid_choice(cur.options, cur.correct)) =>
          /\ cur.outcome = "question"
          /\ Len(LastQuestion.options) = Len(cur.options)

\* A block whose options repeat a text, the correct one among them, is
\* returned as a question.
C12_Witness ==
    /\ cur.outcome = "question"
    /\ DuplicateOptions
    /\ \E i \in 1..Len(cur.options) :
          i # cur.correct[1] + 1 /\ cur.options[i] = cur.options[cur.correct[1] + 1]

(***************************************************************************)
(* SpecNorm: normalize_text applied twice to a bounded input               *)
(***************************************************************************)

MaxNormLen == 3

NormAlphabet == {"e", "ACUTE", "ZWSP", "NBSP", "CR", "LF", " ", "AD3", "x"}

NormInputs == UNION {[1..n -> NormAlphabet] : n \in 0..MaxNormLen}

InitNorm ==
    /\ message \in NormInputs
    /\ text = <<>>
    /\ blocks = <<>>
    /\ bi = 0
    /\ questions = <<>>
    /\ failed = <<>>
    /\ cur = NoIteration
    /\ pc = "start"
    /\ RateIdle

\* y = normalize_text(x)
NormalizeOnce ==
    /\ pc = "start"
    /\ text' = normalize_text(message)
    /\ pc' = "normalized"
    /\ UNCHANGED <<message, blocks, bi, questions, failed, cur>>
    /\ UNCHANGED rateVars

\* z = normalize_text(y); message keeps y for the comparison
NormalizeTwice ==
    /\ pc = "normalized"
    /\ message' = text
    /\ text' = normalize_text(text)
    /\ pc' = "renormalized"
    /\ UNCHANGED <<blocks, bi, questions, failed, cur>>
    /\ UNCHANGED rateVars

NextNorm == NormalizeOnce \/ NormalizeTwice

SpecNorm == InitNorm /\ [][NextNorm]_vars

\* C8: normalize_text is idempotent: normalizing a normalized text changes nothing.
C8_Idempotent == pc = "renormalized" => text = message

(***************************************************************************)
(* SpecRate: a bounded sequence of calls of check_rate_limit               *)
(***************************************************************************)

MaxCalls == 4

\* The seconds that may pass between a reading of the clock and the next:
\* none, less than the cooldown, the cooldown, more than the time to live.
Advance == {0, 4, 5, 3601}

InitRate ==
    /\ message = <<>>
    /\ text = <<>>
    /\ blocks = <<>>
    /\ bi = 0
    /\ questions = <<>>
    /\ failed = <<>>
    /\ cur = NoIteration
    /\ pc = "rate"
    /\ RateIdle

\* The record of a call: its number, its argument, its reading of the
\* clock, its result, the dictionary before it and the time of the last
\* allowed call of the same user before it.
CallRecord(user_id, now, allowed, remaining) ==
    [n |-> call.n + 1, user |-> user_id, now |-> now, allowed |-> allowed,
     remaining |-> remaining, before |-> user_last_request,
     prev |-> allowed_at[user_id]]

\* check_rate_limit(user_id) reading now and returning (False, remaining).
DeniedCall ==
    /\ call.n < MaxCalls
    /\ \E user_id \in Users, d \in Advance :
          /\ limited(Get(user_last_request, user_id), clock + d)
          /\ clock' = clock + d
          /\ call' = CallRecord(user_id, clock + d, FALSE,
                        USER_COOLDOWN_SECONDS
                            - ((clock + d) - Get(user_last_request, user_id)[1]))
          /\ UNCHANGED <<user_last_request, allowed_at>>
    /\ UNCHANGED parserVars

\* check_rate_limit(user_id) reading now and returning (True, 0.0);
\* cleanup_users reads the clock again, e seconds later.
AllowedCall ==
    /\ call.n < MaxCalls
    /\ \E user_id \in Users, d \in Advance, e \in Advance :
          /\ ~limited(Get(user_last_request, user_id), clock + d)
          /\ clock' = clock + d + e
          /\ user_last_request' =
                cleanup_users(SetEntry(user_last_request, user_id, clock + d),
                              clock + d + e)
          /\ allowed_at' = [allowed_at EXCEPT ![user_id] = Some(clock + d)]
          /\ call' = CallRecord(user_id, clock + d, TRUE, 0)
    /\ UNCHANGED parserVars

NextRate == DeniedCall \/ AllowedCall

SpecRate == InitRate /\ [][NextRate]_vars

\* C13: a denied call leaves user_last_request unchanged; an allowed call
\* comes at least USER_COOLDOWN_SECONDS after the last allowed call of the
\* same user; the entries are the times of the last allowed calls, and a
\* user whose entry the cleanup removed was last allowed more than
\* USER_TTL_SECONDS ago, so that the removal lets no one through early.
C13_RateLimit ==
    /\ (call.n > 0 /\ ~call.allowed) =>
          /\ user_last_request = call.before
          /\ call.remaining > 0
          /\ call.remaining <= USER_COOLDOWN_SECONDS
    /\ (call.allowed /\ call.prev # None) =>
          call.now - call.prev[1] >= USER_COOLDOWN_SECONDS
    /\ \A uid \in DOMAIN user_last_request :
          allowed_at[uid] = Some(user_last_request[uid])
    /\ \A uid \in Users \ DOMAIN user_last_request :
          allowed_at[uid] # None => clock - allowed_at[uid][1] > USER_TTL_SECONDS

\* A user is allowed a second time after the cleanup removed its entry.
C13_Witness ==
    /\ call.allowed
    /\ call.prev # None
    /\ call.user \notin DOMAIN call.before

\* A user is allowed a second time exactly the cooldown after the first.
C13_WitnessCooldown ==
    /\ call.allowed
    /\ call.prev # None
    /\ call.user \in DOMAIN call.before
    /\ call.now - call.prev[1] = USER_COOLDOWN_SECONDS

\* A call is denied while other users have entries.
C13_WitnessDenied ==
    /\ call.n > 0
    /\ ~call.allowed
    /\ call.remaining = 1
    /\ DOMAIN user_last_request # {call.user}

=============================================================================
